---- MODULE Spec2Model ----
(***************************************************************************)
(* A model of cinemabot: the bounded TTL cache (bot/cache.py), the watch   *)
(* link race (bot/watchlinks.py) and the request flow of on_query          *)
(* (bot/handlers.py, bot/tmdb.py).                                         *)
(*                                                                         *)
(* The specifications that share the module:                               *)
(*   SpecCache  one TTLCache driven by arbitrary get / set / clock steps   *)
(*   SpecRace   one call of find_first_watch_link on the asyncio loop      *)
(*   SpecQuery  on_query requests against the two caches of build_router   *)
(*   SpecNorm        norm_query applied to texts and their variants        *)
(*   SpecCandidates  the candidate list built from the search hits         *)
(*   SpecSearch      tmdb_search_best applied to catalog answers           *)
(***************************************************************************)
EXTENDS Integers, Sequences, FiniteSets, TLC

VARIABLES
    \* ---- SpecCache: one TTLCache object and the clock
    cache,        \* [ttl, maxsize, data]; data is the dict in insertion order
    now,          \* time.time()
    lastOp,       \* the last call made on `cache` and what it returned
    \* ---- SpecRace: one call of find_first_watch_link
    cpc,          \* where the coordinator coroutine is
    concurrency,  \* the `concurrency` argument (width of the semaphore)
    candidates,   \* candidates[:total_limit], a sequence of URL ids
    tstate,       \* per task: "created" | "queued" | "woken" | "running" | "done"
    tres,         \* per task: "pending" | "Rejected" | "Accepted" | "Error" | "Cancelled"
    cancelReq,    \* per task: t.cancel() was called while it was not done
    semValue,     \* asyncio.Semaphore._value
    waiters,      \* asyncio.Semaphore._waiters (task ids, FIFO)
    doneLog,      \* the tasks in the order they finished (as_completed's queue)
    nobs,         \* how many completions the coordinator has consumed
    result,       \* what find_first_watch_link returned: <<>> or <<WatchLink>>
    \* ---- SpecQuery: on_query handlers and the two caches of build_router
    meta_cache,   \* TTLCache of MovieMeta | None by normalized query / title
    watch_cache,  \* TTLCache of watch URL | None by "tmdb:<type>:<id>"
    hpc,          \* per handler: the await it is suspended at, or "idle"
    hreq,         \* per handler: the locals of its current (or last) request
    \* ---- SpecNorm, SpecCandidates, SpecSearch: one call of a function each
    nq,           \* norm_query: a text, a variant of it, and their keys
    sc,           \* the search hits and the candidate list made of them
    sb            \* tmdb_search_best: the two answers and what was selected

cacheVars == <<cache, now, lastOp>>
raceVars  == <<cpc, concurrency, candidates, tstate, tres, cancelReq,
               semValue, waiters, doneLog, nobs, result>>
queryVars == <<meta_cache, watch_cache, hpc, hreq>>
pureVars  == <<nq, sc, sb>>
vars      == <<cacheVars, raceVars, queryVars, pureVars>>

\* Python's None: what get returns for a missing key and also a storable value.
None == "None"
\* None where a WatchLink | None is returned
NoLink == <<>>

(***************************************************************************)
(* Bounds of the model.                                                    *)
(***************************************************************************)
MaxSize  == 2      \* largest maxsize a cache is built with
TTL      == 1      \* ttl_seconds the caches are built with (30 * 60 in the bot)
MaxTime  == 2      \* the clock ranges over 0..MaxTime
MaxCand  == 3      \* most candidates handed to a race
MaxConc  == 2      \* largest semaphore width
MetaSize == 2      \* maxsize of meta_cache (512 in the bot)
WatchSize == 1     \* maxsize of watch_cache (1024 in the bot)

CacheKeys   == {"k1", "k2", "k3"}
CacheValues == {None, "v1"}
Times       == 0..MaxTime

(***************************************************************************)
(* bot/cache.py                                                            *)
(***************************************************************************)

\* _Entry plus the dict key it is stored under.
Entry(k, v, e) == [key |-> k, value |-> v, expires_at |-> e]

\* TTLCache.__init__
TTLCache(ttl_seconds, max) == [ttl |-> ttl_seconds, maxsize |-> max, data |-> <<>>]

\* position of key in the dict, 0 when missing (dict.get(key) is None)
IndexOf(data, k) ==
    IF \E i \in DOMAIN data : data[i].key = k
    THEN CHOOSE i \in DOMAIN data : data[i].key = k
    ELSE 0

HasKey(data, k) == IndexOf(data, k) # 0

\* dict.pop(key, None)
Pop(data, k) == SelectSeq(data, LAMBDA e : e.key # k)

\* variant: an existing key keeps its old entry
Store_keeps_old(data, e) ==
    IF HasKey(data, e.key) THEN data ELSE Append(data, e)

\* dict[key] = entry: an existing key keeps its position, a new one goes last
Store(data, e) ==
    LET i == IndexOf(data, e.key)
    IN  IF i = 0 THEN Append(data, e) ELSE [data EXCEPT ![i] = e]

\* variant: no ordering by expiry, items stay in dict order
InsertSorted_append(s, e) == Append(s, e)

\* sorted(items, key=expires_at): stable, ties keep dict order
InsertSorted(s, e) ==
    LET p == Cardinality({i \in DOMAIN s : s[i].expires_at <= e.expires_at})
    IN  SubSeq(s, 1, p) \o <<e>> \o SubSeq(s, p + 1, Len(s))

RECURSIVE sorted(_)
sorted(s) ==
    IF s = <<>> THEN <<>>
    ELSE InsertSorted(sorted(SubSeq(s, 1, Len(s) - 1)), s[Len(s)])

Max(a, b) == IF a >= b THEN a ELSE b
Min(a, b) == IF a <= b THEN a ELSE b

\* a plausible slip in _trim: the slice keeps one entry too many
trim_off_by_one(data, maxsize, t) ==
    LET live   == SelectSeq(data, LAMBDA e : ~(e.expires_at < t))
        items  == sorted(live)
        n      == Min(Len(live), Max(0, Len(live) - maxsize - 1))
        victim == {items[i].key : i \in 1..n}
    IN  SelectSeq(live, LAMBDA e : e.key \notin victim)

\* TTLCache._trim
trim(data, maxsize, t) ==
    LET live   == SelectSeq(data, LAMBDA e : ~(e.expires_at < t))
        items  == sorted(live)
        n      == Min(Len(live), Max(0, Len(live) - maxsize))
        victim == {items[i].key : i \in 1..n}
    IN  IF Len(live) <= maxsize THEN live
        ELSE SelectSeq(live, LAMBDA e : e.key \notin victim)

\* variant: set stores the entry and never trims
set_without_trim(c, k, v, t) ==
    [c EXCEPT !.data = Store(c.data, Entry(k, v, t + c.ttl))]

\* TTLCache.set: the cache afterwards
set(c, k, v, t) ==
    [c EXCEPT !.data = trim(Store(c.data, Entry(k, v, t + c.ttl)), c.maxsize, t)]

\* a plausible slip in get: the stale entry is reported absent but left stored
get_keeps_stale(c, k, t) ==
    LET i == IndexOf(c.data, k)
    IN  IF i = 0 THEN [cache |-> c, value |-> None]
        ELSE IF c.data[i].expires_at < t THEN [cache |-> c, value |-> None]
        ELSE [cache |-> c, value |-> c.data[i].value]

\* TTLCache.get: the cache afterwards and the value returned
get(c, k, t) ==
    LET i == IndexOf(c.data, k)
    IN  IF i = 0 THEN [cache |-> c, value |-> None]
        ELSE IF c.data[i].expires_at < t
             THEN [cache |-> [c EXCEPT !.data = Pop(c.data, k)], value |-> None]
        ELSE [cache |-> c, value |-> c.data[i].value]

(***************************************************************************)
(* bot/handlers.py: the state build_router creates and on_query uses.      *)
(***************************************************************************)
\* the handlers that run; one handler serves its messages one after another
Handlers == {"h1"}

\* the locals of on_query for one message, and what the request did:
\*   meta_hit / watch_hit   what the cache held, unexpired, under the key when
\*                          get was called: "miss", "none" (an entry holding
\*                          None) or "value"; "unread" if get was not called
\*   calls                  the catalog requests made, in order
\*   details                "not_called", "ok", or "failed" when
\*                          tmdb_fetch_details returned None
\*   discovery              "not_called", "ok" or "failed"
\*   probes                 whether validation tasks were started
\*   end                    "running", "ignored" (empty text), "not_found",
\*                          "answered" or "raised"
NoRequest ==
    [user_query |-> <<>>, meta |-> None, watch_url |-> None,
     meta_hit |-> "unread", calls |-> <<>>, watch_hit |-> "unread",
     discovery |-> "not_called", probes |-> FALSE, end |-> "ignored",
     details |-> "not_called"]

\* meta_cache = TTLCache(30 * 60, 512); watch_cache = TTLCache(30 * 60, 1024)
QueryIdle ==
    /\ meta_cache = TTLCache(TTL, MetaSize)
    /\ watch_cache = TTLCache(TTL, WatchSize)
    /\ hpc = [h \in Handlers |-> "idle"]
    /\ hreq = [h \in Handlers |-> NoRequest]

(***************************************************************************)
(* SpecCache: a TTLCache under arbitrary calls and clock values.           *)
(***************************************************************************)
\* what a get(k) remembers of a set(k, v) it directly follows before the TTL
\* of that write has elapsed (the clock may move in between): the key, the
\* value, and whether no stored entry expired later than the entry written
NoWrite == [key |-> "none", value |-> None, latest |-> FALSE]

NoOp == [op |-> "none", key |-> "k1", value |-> None, t |-> 0, ret |-> None,
         before |-> <<>>, wrote |-> NoWrite]

\* no call of norm_query, of the candidate search or of tmdb_search_best
NoNorm == [pc |-> "unused", x |-> <<>>, y |-> <<>>, nx |-> <<>>, nnx |-> <<>>,
           ny |-> <<>>, kx |-> <<>>, ky |-> <<>>]
NoCandidates == [pc |-> "unused", hits |-> <<>>, total_limit |-> 0,
                 urls |-> <<>>, out |-> <<>>, candidates |-> <<>>]
NoBest == [pc |-> "unused", ru |-> <<>>, en |-> <<>>, meta |-> None,
           calls |-> <<>>]

PureIdle == nq = NoNorm /\ sc = NoCandidates /\ sb = NoBest

RaceIdle ==
    /\ cpc = "unused" /\ concurrency = 1 /\ candidates = <<>>
    /\ tstate = <<>> /\ tres = <<>> /\ cancelReq = <<>>
    /\ semValue = 0 /\ waiters = <<>> /\ doneLog = <<>> /\ nobs = 0
    /\ result = NoLink

InitCache ==
    /\ \E m \in 0..MaxSize : cache = TTLCache(TTL, m)
    /\ now \in Times
    /\ lastOp = NoOp
    /\ RaceIdle
    /\ QueryIdle
    /\ PureIdle

CacheSetOp ==
    \E k \in CacheKeys, v \in CacheValues :
        /\ cache' = set(cache, k, v, now)
        /\ lastOp' = [op |-> "set", key |-> k, value |-> v, t |-> now,
                      ret |-> None, before |-> cache.data,
                      wrote |-> [key |-> k, value |-> v,
                                 latest |-> \A i \in DOMAIN cache.data :
                                    cache.data[i].expires_at <= now + cache.ttl]]
        /\ UNCHANGED <<now, raceVars, queryVars, pureVars>>

CacheGetOp ==
    \E k \in CacheKeys :
        LET r == get(cache, k, now)
        IN  /\ cache' = r.cache
            /\ lastOp' = [op |-> "get", key |-> k, value |-> None, t |-> now,
                          ret |-> r.value, before |-> cache.data,
                          wrote |-> IF /\ lastOp.op = "set"
                                       /\ lastOp.key = k
                                       /\ now <= lastOp.t + cache.ttl
                                    THEN lastOp.wrote ELSE NoWrite]
            /\ UNCHANGED <<now, raceVars, queryVars, pureVars>>

\* time.time() is the wall clock: it may move to any value between two calls
ClockStep ==
    /\ \E t \in Times \ {now} : now' = t
    /\ UNCHANGED <<cache, lastOp, raceVars, queryVars, pureVars>>

NextCache == CacheSetOp \/ CacheGetOp \/ ClockStep

SpecCache == InitCache /\ [][NextCache]_vars

(***************************************************************************)
(* bot/watchlinks.py: find_first_watch_link on the asyncio event loop.     *)
(* A task is "created" until its first step, "queued" while it awaits the  *)
(* semaphore, "woken" once the semaphore handed it a permit and it has not *)
(* resumed yet, "running" while it holds a permit inside _is_working, and  *)
(* "done" afterwards.  asyncio.Semaphore is modelled as CPython 3.11+      *)
(* implements it (FIFO waiters, the permit is handed over at wake-up).     *)
(***************************************************************************)
Tasks == DOMAIN candidates

\* what session.get / resp.text can end with for a candidate that has a host:
\* "Accepted"  status in [200, 400), final host, text/html (line 64)
\* "Rejected"  lines 52, 56, 60, or aiohttp.ClientError / TimeoutError (line 66)
\* "Error"     an exception of another class, which line 65 does not catch
FetchOutcomes == {"Accepted", "Rejected", "Error"}

\* the post-redirect URL of a candidate, str(resp.url)
FinalUrl(u) == <<"final", u>>

\* WatchLink(url=str(resp.url), domain=final_host)
WatchLink(u) == [url |-> FinalUrl(u), domain |-> <<"host", u>>]

\* a returned WatchLink | None: the empty sequence is None
Link(u) == <<WatchLink(u)>>

\* the semaphore together with the tasks it suspends and resumes
SemState == [value |-> semValue, waiters |-> waiters, tstate |-> tstate]

\* a waiter's future is cancelled when its task was cancelled while queued
FutCancelled(S, cr, i) == S.tstate[i] = "queued" /\ cr[i]

\* a slip: the semaphore is taken for free whenever nobody waits
locked_ignores_value(S, cr) ==
    \E p \in DOMAIN S.waiters : ~FutCancelled(S, cr, S.waiters[p])

\* Semaphore.locked
locked(S, cr) ==
    \/ S.value = 0
    \/ \E p \in DOMAIN S.waiters : ~FutCancelled(S, cr, S.waiters[p])

\* variant: a release wakes nobody
wake_up_nobody(S, cr) == S

\* Semaphore._wake_up_next: the first waiter whose future is not done
wake_up_next(S, cr) ==
    LET ready == {p \in DOMAIN S.waiters :
                    /\ S.tstate[S.waiters[p]] = "queued"
                    /\ ~cr[S.waiters[p]]}
        first == CHOOSE p \in ready : \A q \in ready : p <= q
    IN  IF ready = {} THEN S
        ELSE [S EXCEPT !.value = @ - 1, !.tstate[S.waiters[first]] = "woken"]

\* Semaphore.release
release(S, cr) == wake_up_next([S EXCEPT !.value = @ + 1], cr)

\* self._waiters.remove(fut)
RemoveWaiter(S, i) ==
    [S EXCEPT !.waiters = SelectSeq(S.waiters, LAMBDA j : j # i)]

\* a slip: siblings waiting on the semaphore are forgotten
cancel_running_only(ts) == [i \in DOMAIN ts |-> ts[i] = "running"]

\* for t in tasks: t.cancel()  (a no-op on a task that is done)
cancel_all(ts) == [i \in DOMAIN ts |-> ts[i] # "done"]

\* a slip: the tasks are awaited in submission order (for t in tasks: await t)
in_submission_order(log, n) ==
    IF \E k \in DOMAIN log : log[k] = n + 1 THEN n + 1 ELSE 0

\* variant: the most recently finished task is handed out first
latest_completed_first(log, n) == IF n < Len(log) THEN log[Len(log)] ELSE 0

\* asyncio.as_completed: the next finished task in completion order, 0 if none
as_completed(log, n) == IF n < Len(log) THEN log[n + 1] ELSE 0

\* a slip: the loop gives up at the first rejection
exhausted_after_one(n, total) == n >= 1

\* the for loop over as_completed has consumed every task
exhausted(n, total) == n = total

\* variant: lines 81-82 are missing, the race is set up for any list
Discover_without_empty_check ==
    /\ cpc = "discover"
    /\ \/ /\ cpc' = "discovery_error"
          /\ UNCHANGED <<candidates, tstate, tres, cancelReq, semValue, waiters>>
       \/ \E n \in 0..(MaxCand + 1) :
            LET total == Min(n, MaxCand)
            IN  /\ candidates' = [i \in 1..total |-> i]
                /\ cpc' = "observing"
                /\ tstate' = [i \in 1..total |-> "created"]
                /\ tres' = [i \in 1..total |-> "pending"]
                /\ cancelReq' = [i \in 1..total |-> FALSE]
                /\ semValue' = concurrency
                /\ waiters' = <<>>
    /\ UNCHANGED <<concurrency, doneLog, nobs, result, cacheVars, queryVars, pureVars>>

\* search_candidates_sync returned n URLs or raised; then candidates[:total_limit]
Discover ==
    /\ cpc = "discover"
    /\ \/ /\ cpc' = "discovery_error"
          /\ UNCHANGED <<candidates, tstate, tres, cancelReq, semValue, waiters>>
       \/ \E n \in 0..(MaxCand + 1) :
            LET total == Min(n, MaxCand)
            IN  /\ candidates' = [i \in 1..total |-> i]
                /\ IF total = 0
                   THEN /\ cpc' = "returned"
                        /\ UNCHANGED <<tstate, tres, cancelReq, semValue, waiters>>
                   ELSE /\ cpc' = "observing"
                        /\ tstate' = [i \in 1..total |-> "created"]
                        /\ tres' = [i \in 1..total |-> "pending"]
                        /\ cancelReq' = [i \in 1..total |-> FALSE]
                        /\ semValue' = concurrency
                        /\ waiters' = <<>>
    /\ UNCHANGED <<concurrency, doneLog, nobs, result, cacheVars, queryVars, pureVars>>

\* task i holds a permit and enters _is_working: a URL without a host is
\* rejected at once (line 47), any other suspends in session.get
EnterIsWorking(S, i, hasHost) ==
    IF hasHost
    THEN /\ semValue' = S.value
         /\ waiters' = S.waiters
         /\ tstate' = [S.tstate EXCEPT ![i] = "running"]
         /\ UNCHANGED <<tres, doneLog>>
    ELSE LET R == release([S EXCEPT !.tstate[i] = "done"], cancelReq)
         IN  /\ semValue' = R.value
             /\ waiters' = R.waiters
             /\ tstate' = R.tstate
             /\ tres' = [tres EXCEPT ![i] = "Rejected"]
             /\ doneLog' = Append(doneLog, i)

\* first step of check(u): async with sem.  The loop runs the tasks' first
\* steps in creation order.
TaskStart(i) ==
    /\ cpc = "observing"
    /\ tstate[i] = "created"
    /\ \A j \in Tasks : j < i => tstate[j] # "created"
    /\ IF locked(SemState, cancelReq)
       THEN /\ waiters' = Append(waiters, i)
            /\ tstate' = [tstate EXCEPT ![i] = "queued"]
            /\ UNCHANGED <<semValue, tres, doneLog>>
       ELSE \E hasHost \in BOOLEAN :
                EnterIsWorking([SemState EXCEPT !.value = @ - 1], i, hasHost)
    /\ UNCHANGED <<cpc, concurrency, candidates, cancelReq, nobs, result, cacheVars, queryVars, pureVars>>

\* a queued task resumes with the permit the semaphore handed it
TaskResume(i) ==
    /\ tstate[i] = "woken"
    /\ ~cancelReq[i]
    /\ LET S1 == RemoveWaiter(SemState, i)
           S2 == IF S1.value > 0 THEN wake_up_next(S1, cancelReq) ELSE S1
       IN  \E hasHost \in BOOLEAN : EnterIsWorking(S2, i, hasHost)
    /\ UNCHANGED <<cpc, concurrency, candidates, cancelReq, nobs, result, cacheVars, queryVars, pureVars>>

\* the fetch of a running task ends; leaving async with sem releases the permit
TaskFinish(i) ==
    /\ tstate[i] = "running"
    /\ ~cancelReq[i]
    /\ \E outcome \in FetchOutcomes :
         LET R == release([SemState EXCEPT !.tstate[i] = "done"], cancelReq)
         IN  /\ semValue' = R.value
             /\ waiters' = R.waiters
             /\ tstate' = R.tstate
             /\ tres' = [tres EXCEPT ![i] = outcome]
             /\ doneLog' = Append(doneLog, i)
    /\ UNCHANGED <<cpc, concurrency, candidates, cancelReq, nobs, result, cacheVars, queryVars, pureVars>>

\* a cancelled task runs again: CancelledError is thrown at its await
TaskCancelled(i) ==
    /\ cancelReq[i]
    /\ tstate[i] \in {"queued", "woken", "running"}
    /\ LET D  == [SemState EXCEPT !.tstate[i] = "done"]
           R  == CASE tstate[i] = "queued"  -> RemoveWaiter(D, i)
                   [] tstate[i] = "woken"   -> release(RemoveWaiter(D, i), cancelReq)
                   [] tstate[i] = "running" -> release(D, cancelReq)
       IN  /\ semValue' = R.value
           /\ waiters' = R.waiters
           /\ tstate' = R.tstate
    /\ tres' = [tres EXCEPT ![i] = "Cancelled"]
    /\ doneLog' = Append(doneLog, i)
    /\ UNCHANGED <<cpc, concurrency, candidates, cancelReq, nobs, result, cacheVars, queryVars, pureVars>>

\* res = await done, lines 96-101 and 103.  The coordinator resumes after the
\* first steps of all tasks, which the loop scheduled before any completion.
Observe ==
    /\ cpc = "observing"
    /\ \A j \in Tasks : tstate[j] # "created"
    /\ LET i == as_completed(doneLog, nobs)
       IN  /\ i # 0
           /\ tstate[i] = "done"
           /\ nobs' = nobs + 1
           /\ CASE tres[i] = "Accepted" ->
                     /\ cancelReq' = cancel_all(tstate)
                     /\ cpc' = "returned"
                     /\ result' = Link(candidates[i])
                [] tres[i] = "Rejected" ->
                     /\ cpc' = IF exhausted(nobs + 1, Len(candidates))
                               THEN "returned" ELSE "observing"
                     /\ UNCHANGED <<cancelReq, result>>
                [] OTHER ->
                     /\ cpc' = "probe_error"
                     /\ UNCHANGED <<cancelReq, result>>
    /\ UNCHANGED <<concurrency, candidates, tstate, tres, semValue, waiters,
                   doneLog, cacheVars, queryVars, pureVars>>

CacheIdle == cache = TTLCache(TTL, 0) /\ now = 0 /\ lastOp = NoOp

InitRace ==
    /\ cpc = "discover"
    /\ concurrency \in 1..MaxConc
    /\ candidates = <<>>
    /\ tstate = <<>> /\ tres = <<>> /\ cancelReq = <<>>
    /\ semValue = 0 /\ waiters = <<>> /\ doneLog = <<>> /\ nobs = 0
    /\ result = NoLink
    /\ CacheIdle
    /\ QueryIdle
    /\ PureIdle

NextRace ==
    \/ Discover
    \/ \E i \in Tasks : TaskStart(i)
    \/ \E i \in Tasks : TaskResume(i)
    \/ \E i \in Tasks : TaskFinish(i)
    \/ \E i \in Tasks : TaskCancelled(i)
    \/ Observe

SpecRace == InitRace /\ [][NextRace]_vars

(***************************************************************************)
(* bot/cache.py norm_query, on strings as sequences of characters.         *)
(***************************************************************************)
\* str.isspace of one character (the space and the tab stand for all of them)
IsSpace(c) == c \in {" ", "\t"}

\* str.lower on one character
Lower(c) == CASE c = "A" -> "a" [] c = "B" -> "b" [] OTHER -> c

\* a cased letter; "SIGMA", "sigma" and "varsigma" stand for the one-character
\* strings U+03A3, U+03C3 and U+03C2
IsCased(c) == c \in {"a", "A", "b", "B", "SIGMA", "sigma", "varsigma"}

\* str.lower: U+03A3 becomes the final form U+03C2 after a cased letter when
\* no cased letter follows, U+03C3 elsewhere; every other character is
\* lowered by itself
lower(q) ==
    [i \in DOMAIN q |->
        IF q[i] = "SIGMA"
        THEN IF /\ i > 1 /\ IsCased(q[i - 1])
                /\ (i = Len(q) \/ ~IsCased(q[i + 1]))
             THEN "varsigma" ELSE "sigma"
        ELSE Lower(q[i])]

RECURSIVE lstrip(_)
lstrip(q) == IF q # <<>> /\ IsSpace(Head(q)) THEN lstrip(Tail(q)) ELSE q

RECURSIVE rstrip(_)
rstrip(q) ==
    IF q # <<>> /\ IsSpace(q[Len(q)]) THEN rstrip(SubSeq(q, 1, Len(q) - 1)) ELSE q

\* str.strip
strip(q) == rstrip(lstrip(q))

\* the first word of q and what follows it (q starts with a non-space)
RECURSIVE WordLen(_)
WordLen(q) == IF q = <<>> \/ IsSpace(Head(q)) THEN 0 ELSE 1 + WordLen(Tail(q))

\* str.split(): the maximal runs of non-space characters
RECURSIVE split(_)
split(q) ==
    LET r == lstrip(q)
        n == WordLen(r)
    IN  IF r = <<>> THEN <<>>
        ELSE <<SubSeq(r, 1, n)>> \o split(SubSeq(r, n + 1, Len(r)))

\* " ".join(words)
RECURSIVE join(_)
join(ws) ==
    IF ws = <<>> THEN <<>>
    ELSE IF Len(ws) = 1 THEN ws[1]
    ELSE ws[1] \o <<" ">> \o join(Tail(ws))

\* norm_query
norm_query(q) == join(split(lower(strip(q))))

(***************************************************************************)
(* bot/tmdb.py: what the catalog can answer.  A MovieMeta is named by a    *)
(* string; MovieMetas gives its fields.  "m1" is built by                  *)
(* _pick_first_movie_tv from a search result, "m1d" by tmdb_fetch_details. *)
(***************************************************************************)
MovieMetas ==
    [m1  |-> [tmdb_id |-> 1, media_type |-> "movie", title |-> <<"B">>,
              overview |-> "search"],
     m1d |-> [tmdb_id |-> 1, media_type |-> "movie", title |-> <<"B">>,
              overview |-> "details"]]

\* the entries of a search/multi response: r.get("media_type"), r.get("id"),
\* whether that id is an int, and the MovieMeta line 130 builds from the entry
Person == [media_type |-> "person", id |-> 7, int_id |-> TRUE, meta |-> None]
Movie1 == [media_type |-> "movie", id |-> 1, int_id |-> TRUE, meta |-> "m1"]
Tv2    == [media_type |-> "tv", id |-> 2, int_id |-> TRUE, meta |-> "t2"]
\* a movie entry without a usable id; "m3" names the record it would give
Movie3NoId == [media_type |-> "movie", id |-> 3, int_id |-> FALSE, meta |-> "m3"]

\* _search_multi: the "results" list; [] also on HTTP >= 400 and on any error
SearchResults == {<<>>, <<Person>>, <<Person, Movie1>>}

\* tmdb_fetch_details: None on HTTP >= 400 and on any error
DetailsResults == {None, "m1d"}

\* _pick_first_movie_tv
RECURSIVE pick_first_movie_tv(_)
pick_first_movie_tv(results) ==
    IF results = <<>> THEN None
    ELSE IF /\ Head(results).media_type \in {"movie", "tv"}
            /\ Head(results).int_id
         THEN Head(results).meta
    ELSE pick_first_movie_tv(Tail(results))

\* variant: the fallback search is made only after an empty primary answer
tmdb_search_best_empty_only(ru, en) ==
    IF ru # <<>>
    THEN [meta |-> pick_first_movie_tv(ru), calls |-> <<"search:ru-RU">>]
    ELSE [meta |-> pick_first_movie_tv(en),
          calls |-> <<"search:ru-RU", "search:en-US">>]

\* tmdb_search_best: the match and the searches made
tmdb_search_best(ru, en) ==
    IF pick_first_movie_tv(ru) # None
    THEN [meta |-> pick_first_movie_tv(ru), calls |-> <<"search:ru-RU">>]
    ELSE [meta |-> pick_first_movie_tv(en),
          calls |-> <<"search:ru-RU", "search:en-US">>]

(***************************************************************************)
(* bot/handlers.py: on_query, one action per stretch between two awaits.   *)
(***************************************************************************)
\* message.text values
Texts == {<<" ">>, <<"A">>, <<"a", " ">>, <<"B">>, <<"c">>}

\* what find_first_watch_link can end with (the final states of SpecRace):
\* discovery raised; discovery gave no candidate; a probe raised; every probe
\* rejected; a probe accepted
RaceOutcomes == {"discovery_error", "no_candidates", "probe_error", "none", "link"}

\* the url of the WatchLink a race returns
WatchUrl == "url1"

\* f"tmdb:{meta.media_type}:{meta.tmdb_id}"
watch_key(m) == <<"tmdb", MovieMetas[m].media_type, MovieMetas[m].tmdb_id>>

\* what a cache holds, unexpired, under a key
Held(c, k, t) ==
    LET i == IndexOf(c.data, k)
    IN  IF i = 0 \/ c.data[i].expires_at < t THEN "miss"
        ELSE IF c.data[i].value = None THEN "none"
        ELSE "value"

\* variant: without the return of line 146 a request without a record
\* goes on to the history and stat writes
AfterMeta_without_return(h, req, mc) ==
    /\ meta_cache' = mc
    /\ IF req.meta = None
       THEN /\ hreq' = [hreq EXCEPT ![h] = req]
            /\ hpc' = [hpc EXCEPT ![h] = "persist"]
            /\ UNCHANGED watch_cache
       ELSE LET k == watch_key(req.meta)
                g == get(watch_cache, k, now)
                r == [req EXCEPT !.watch_hit = Held(watch_cache, k, now)]
            IN  /\ watch_cache' = g.cache
                /\ IF g.value = None
                   THEN /\ hreq' = [hreq EXCEPT ![h] = r]
                        /\ hpc' = [hpc EXCEPT ![h] = "race"]
                   ELSE /\ hreq' = [hreq EXCEPT ![h] = [r EXCEPT !.watch_url = g.value]]
                        /\ hpc' = [hpc EXCEPT ![h] = "persist"]

\* lines 144-160 up to the next await, with meta resolved and mc the
\* metadata cache as the lookup left it
AfterMeta(h, req, mc) ==
    /\ meta_cache' = mc
    /\ IF req.meta = None
       THEN \* line 145: "nothing found"
            /\ hreq' = [hreq EXCEPT ![h] = [req EXCEPT !.end = "not_found"]]
            /\ hpc' = [hpc EXCEPT ![h] = "idle"]
            /\ UNCHANGED watch_cache
       ELSE LET k == watch_key(req.meta)
                g == get(watch_cache, k, now)
                r == [req EXCEPT !.watch_hit = Held(watch_cache, k, now)]
            IN  /\ watch_cache' = g.cache
                /\ IF g.value = None
                   THEN /\ hreq' = [hreq EXCEPT ![h] = r]
                        /\ hpc' = [hpc EXCEPT ![h] = "race"]
                   ELSE /\ hreq' = [hreq EXCEPT ![h] = [r EXCEPT !.watch_url = g.value]]
                        /\ hpc' = [hpc EXCEPT ![h] = "persist"]

\* lines 119-126: a message arrives, the metadata cache is read
Receive(h) ==
    /\ hpc[h] = "idle"
    /\ \E text \in Texts :
         LET user_query == strip(text)
             user_key   == norm_query(user_query)
             g   == get(meta_cache, user_key, now)
             req == [NoRequest EXCEPT !.user_query = user_query,
                                      !.meta = g.value,
                                      !.meta_hit = Held(meta_cache, user_key, now),
                                      !.end = "running"]
         IN  IF user_query = <<>>
             THEN /\ hreq' = [hreq EXCEPT ![h] = NoRequest]
                  /\ UNCHANGED <<meta_cache, watch_cache, hpc>>
             ELSE IF g.value = None
             THEN /\ meta_cache' = g.cache
                  /\ hreq' = [hreq EXCEPT ![h] = req]
                  /\ hpc' = [hpc EXCEPT ![h] = "lookup"]
                  /\ UNCHANGED watch_cache
             ELSE AfterMeta(h, req, g.cache)
    /\ UNCHANGED <<cacheVars, raceVars, pureVars>>

\* variant: a match whose details call fails is discarded
Lookup_discards_unenriched(h) ==
    /\ hpc[h] = "lookup"
    /\ \E ru \in SearchResults, en \in SearchResults, det \in DetailsResults :
         LET best == tmdb_search_best(ru, en)
             meta == IF best.meta # None THEN det ELSE None
             made == IF best.meta # None THEN Append(best.calls, "details")
                     ELSE best.calls
             user_key == norm_query(hreq[h].user_query)
             mc1 == set(meta_cache, user_key, meta, now)
             mc2 == IF meta # None
                    THEN set(mc1, norm_query(MovieMetas[meta].title), meta, now)
                    ELSE mc1
             req == [hreq[h] EXCEPT !.meta = meta, !.calls = made,
                                    !.details = IF best.meta = None THEN "not_called"
                                                ELSE IF det = None THEN "failed"
                                                ELSE "ok"]
         IN  AfterMeta(h, req, mc2)
    /\ UNCHANGED <<cacheVars, raceVars, pureVars>>

\* lines 127-139: the catalog answers, the outcome is written to the cache
Lookup(h) ==
    /\ hpc[h] = "lookup"
    /\ \E ru \in SearchResults, en \in SearchResults, det \in DetailsResults :
         LET best == tmdb_search_best(ru, en)
             meta == IF best.meta # None /\ det # None THEN det ELSE best.meta
             made == IF best.meta # None THEN Append(best.calls, "details")
                     ELSE best.calls
             user_key == norm_query(hreq[h].user_query)
             mc1 == set(meta_cache, user_key, meta, now)
             mc2 == IF meta # None
                    THEN set(mc1, norm_query(MovieMetas[meta].title), meta, now)
                    ELSE mc1
             req == [hreq[h] EXCEPT !.meta = meta, !.calls = made,
                                    !.details = IF best.meta = None THEN "not_called"
                                                ELSE IF det = None THEN "failed"
                                                ELSE "ok"]
         IN  AfterMeta(h, req, mc2)
    /\ UNCHANGED <<cacheVars, raceVars, pureVars>>

\* lines 155-158: find_first_watch_link ends, the url is written to the cache
Race(h) ==
    /\ hpc[h] = "race"
    /\ \E out \in RaceOutcomes :
         LET req == [hreq[h] EXCEPT
                       !.discovery = IF out = "discovery_error" THEN "failed" ELSE "ok",
                       !.probes = out \in {"probe_error", "none", "link"}]
             url == IF out = "link" THEN WatchUrl ELSE None
         IN  IF out \in {"discovery_error", "probe_error"}
             THEN /\ hreq' = [hreq EXCEPT ![h] = [req EXCEPT !.end = "raised"]]
                  /\ hpc' = [hpc EXCEPT ![h] = "idle"]
                  /\ UNCHANGED watch_cache
             ELSE /\ hreq' = [hreq EXCEPT ![h] = [req EXCEPT !.watch_url = url]]
                  /\ hpc' = [hpc EXCEPT ![h] = "persist"]
                  /\ watch_cache' = set(watch_cache, watch_key(req.meta), url, now)
    /\ UNCHANGED <<meta_cache, cacheVars, raceVars, pureVars>>

\* lines 162-195: add_history, inc_stat and the answer
Persist(h) ==
    /\ hpc[h] = "persist"
    /\ hreq' = [hreq EXCEPT ![h].end = "answered"]
    /\ hpc' = [hpc EXCEPT ![h] = "idle"]
    /\ UNCHANGED <<meta_cache, watch_cache, cacheVars, raceVars, pureVars>>

\* time passes while handlers are suspended or idle
Tick ==
    /\ now < MaxTime
    /\ now' = now + 1
    /\ UNCHANGED <<cache, lastOp, raceVars, queryVars, pureVars>>

InitQuery ==
    /\ QueryIdle
    /\ CacheIdle
    /\ RaceIdle
    /\ PureIdle

NextQuery ==
    \/ \E h \in Handlers : Receive(h)
    \/ \E h \in Handlers : Lookup(h)
    \/ \E h \in Handlers : Race(h)
    \/ \E h \in Handlers : Persist(h)
    \/ Tick

SpecQuery == InitQuery /\ [][NextQuery]_vars

(***************************************************************************)
(* Properties of the race (SpecRace).                                      *)
(***************************************************************************)
Running == {i \in Tasks : tstate[i] = "running"}
Queued  == {i \in Tasks : tstate[i] \in {"queued", "woken"}}

AcceptedAt == {k \in DOMAIN doneLog : tres[doneLog[k]] = "Accepted"}

\* the first task, in completion order, that completed with a WatchLink
FirstAccepted ==
    IF AcceptedAt = {} THEN 0
    ELSE doneLog[CHOOSE k \in AcceptedAt : \A m \in AcceptedAt : k <= m]

Returned == cpc = "returned"
Winner   == Returned /\ result # NoLink

\* C1: whenever find_first_watch_link has returned, its value is the
\* WatchLink of the first probe, in completion order, that completed Accepted
\* (None only if no probe accepted), whatever that probe's position in the
\* candidate list; and no later step of any task (a late completion, a
\* cancellation) changes what was returned.
C1_FirstAcceptedInCompletionOrderWins ==
    /\ [](Returned => result = IF FirstAccepted = 0 THEN NoLink
                               ELSE Link(candidates[FirstAccepted]))
    /\ [][Returned => (Returned' /\ result' = result)]_vars

\* the last candidate won although an earlier one completed (rejecting) before
\* it, and a cancelled sibling has since finished
C1_Witness ==
    /\ Winner
    /\ Len(candidates) >= 3
    /\ result = Link(candidates[Len(candidates)])
    /\ \E i \in Tasks : tres[i] = "Rejected"
    /\ \E i \in Tasks : tres[i] = "Cancelled"

\* C2: when the coordinator returns a winner, every task is finished or has
\* been sent a cancellation, and the coordinator consumes no further
\* completion afterwards.
C2_SiblingsCancelledOnWin ==
    /\ [](Winner => \A i \in Tasks : tstate[i] = "done" \/ cancelReq[i])
    /\ [][Returned => nobs' = nobs]_vars

\* a winner was returned while one sibling was in its fetch and another still
\* waited on the semaphore: both carry the cancellation
C2_Witness ==
    /\ Winner
    /\ \E i \in Tasks : tstate[i] = "running" /\ cancelReq[i]
    /\ \E i \in Tasks : tstate[i] = "queued" /\ cancelReq[i]

\* C3: at most `concurrency` probes are inside _is_working at any time.
C3_ConcurrencyBound == Cardinality(Running) <= concurrency

\* more candidates than permits: the limit is reached, by a task that had to
\* wait for the permit of one that finished
C3_Witness ==
    /\ concurrency >= 2
    /\ Len(candidates) > concurrency
    /\ Cardinality(Running) = concurrency
    /\ tstate[Len(candidates)] = "running"
    /\ \E i \in Tasks : tstate[i] = "done" /\ tres[i] # "Rejected"

\* C4: find_first_watch_link returns None only after every probe has
\* completed, all of them Rejected; and once all N probes have completed
\* Rejected and been consumed, it has returned None.
C4_NoneOnlyAfterAllRejected ==
    /\ (Returned /\ result = NoLink) =>
          /\ nobs = Len(candidates)
          /\ \A i \in Tasks : tstate[i] = "done" /\ tres[i] = "Rejected"
    /\ (Tasks # {} /\ nobs = Len(candidates)
          /\ \A i \in Tasks : tres[i] = "Rejected") =>
          (Returned /\ result = NoLink)

\* three probes, one of them admitted late, all rejected: None is returned
C4_Witness ==
    /\ Returned /\ result = NoLink
    /\ Len(candidates) >= 3
    /\ nobs = Len(candidates)
    /\ doneLog[1] # 1

\* C5 as claimed: no probe failure ever ends the race with an error
C5_ProbeFailureNeverAbortsRace == cpc # "probe_error"

(***************************************************************************)
(* Properties of the request flow (SpecQuery).                             *)
(***************************************************************************)

\* C6 as claimed: a request whose candidate discovery failed does not end
\* with a raised error; it goes on with no winner, and None is written to the
\* watch cache under the media key.
C6_DiscoveryFailureDegradesToNoWinner ==
    \A h \in Handlers :
        hreq[h].discovery = "failed" =>
            /\ hreq[h].end # "raised"
            /\ hreq[h].watch_url = None
            /\ Held(watch_cache, watch_key(hreq[h].meta), now) # "miss"

\* C7 as claimed: a request that finds an unexpired negative entry (None
\* stored by an earlier lookup without result) under its normalized query
\* makes no catalog call.
C7_NegativeMetadataEntryIsAHit ==
    \A h \in Handlers : hreq[h].meta_hit = "none" => hreq[h].calls = <<>>

\* C8 as claimed: a request that finds an unexpired None (no winner) in the
\* watch cache under its media key runs neither discovery nor any probe.
C8_NoWinnerEntryIsAHit ==
    \A h \in Handlers :
        hreq[h].watch_hit = "none" =>
            hreq[h].discovery = "not_called" /\ ~hreq[h].probes

(***************************************************************************)
(* Properties of the cache (SpecCache).                                    *)
(***************************************************************************)

\* the entry stored under the key of the last call, before that call
EntryBefore == lastOp.before[IndexOf(lastOp.before, lastOp.key)]

\* the last call was a get of a key whose entry had expires_at < time.time()
StaleGet ==
    /\ lastOp.op = "get"
    /\ HasKey(lastOp.before, lastOp.key)
    /\ EntryBefore.expires_at < lastOp.t

\* C9: the number of stored entries never exceeds maxsize: it holds of the
\* empty cache, after every set (whatever the keys, values and clock values,
\* for every maxsize >= 0) and after every get.
C9_SizeAtMostCapacity == Len(cache.data) <= cache.maxsize

\* a set of a new key into a full cache of live entries: eviction by size ran
C9_Witness ==
    /\ lastOp.op = "set"
    /\ cache.maxsize >= 1
    /\ Len(lastOp.before) = cache.maxsize
    /\ ~HasKey(lastOp.before, lastOp.key)
    /\ \A i \in DOMAIN lastOp.before : lastOp.before[i].expires_at >= lastOp.t
    /\ Len(cache.data) = cache.maxsize

\* C10: a get of a key whose entry expired before the current time returns
\* None (absent), never the stored value, and the entry is no longer stored.
C10_StaleEntryNeverReturned ==
    StaleGet => /\ lastOp.ret = None
                /\ ~HasKey(cache.data, lastOp.key)
                /\ Len(cache.data) = Len(lastOp.before) - 1

\* a get of an expired entry that held a real value
C10_Witness == StaleGet /\ EntryBefore.value = "v1"

\* ---------------------------------------------------------------------------
\* C11, C12: what a set leaves behind

\* a get(k) that directly follows a set(k, v), before the TTL of that write
\* has elapsed
GetAfterSet == lastOp.op = "get" /\ lastOp.wrote.key = lastOp.key

\* C11 as stated: set(k, v) followed by get(k) before the TTL has elapsed
\* returns v, whatever the cache contained before the set.
C11_SetThenGetReturnsValue == GetAfterSet => lastOp.ret = lastOp.wrote.value

\* C11, amended: set(k, v) followed by get(k) before the TTL has elapsed
\* returns v provided maxsize >= 1 and no entry stored before the set expires
\* later than the entry written (the clock was not set back); with maxsize = 0,
\* or with a later-expiring entry in a full cache, the eviction run by set
\* removes the entry just written.
C11_SetThenGetReturnsValueIfRoom ==
    (GetAfterSet /\ cache.maxsize >= 1 /\ lastOp.wrote.latest)
        => lastOp.ret = lastOp.wrote.value

\* a get that returns the value just written into a cache that is full
C11_Witness ==
    /\ GetAfterSet
    /\ cache.maxsize >= 1
    /\ lastOp.wrote.latest
    /\ lastOp.wrote.value = "v1"
    /\ lastOp.ret = "v1"
    /\ Len(lastOp.before) = cache.maxsize

\* C12: the mapping left by set(k, v) at time t is the reference result: of
\* the previous entries with k overwritten to expire at t + ttl, those not
\* expired at t; and when more than maxsize of them remain, exactly maxsize
\* of them, every dropped one expiring no later than every kept one.
C12_SetMatchesReference ==
    lastOp.op = "set" =>
        LET written == Entry(lastOp.key, lastOp.value, lastOp.t + cache.ttl)
            prev    == {lastOp.before[i] : i \in DOMAIN lastOp.before}
            merged  == {e \in prev : e.key # lastOp.key} \cup {written}
            live    == {e \in merged : ~(e.expires_at < lastOp.t)}
            left    == {cache.data[i] : i \in DOMAIN cache.data}
        IN  /\ Cardinality(left) = Len(cache.data)
            /\ IF Cardinality(live) <= cache.maxsize
               THEN left = live
               ELSE /\ left \subseteq live
                    /\ Cardinality(left) = cache.maxsize
                    /\ \A d \in live \ left : \A e \in left :
                          d.expires_at <= e.expires_at

\* a new key set into a full cache of live entries whose earliest expiry is
\* not the first in dict order: the second entry is the one evicted
C12_Witness ==
    /\ lastOp.op = "set"
    /\ cache.maxsize = 2
    /\ Len(lastOp.before) = 2
    /\ ~HasKey(lastOp.before, lastOp.key)
    /\ lastOp.before[2].expires_at >= lastOp.t
    /\ lastOp.before[1].expires_at > lastOp.before[2].expires_at
    /\ lastOp.before[2].expires_at < lastOp.t + cache.ttl
    /\ HasKey(cache.data, lastOp.before[1].key)
    /\ ~HasKey(cache.data, lastOp.before[2].key)
    /\ HasKey(cache.data, lastOp.key)

\* ---------------------------------------------------------------------------
\* C13: the dual-key write-back of on_query (SpecQuery)

\* the entry a cache stores under a key, expired or not (key is stored)
EntryOf(c, k) == c.data[IndexOf(c.data, k)]

\* the request of h was resolved by the catalog to a record
Resolved(h) == hreq[h].meta # None /\ hreq[h].calls # <<>>

\* the record of the request of h is stored under both of its keys, with one
\* expiry
StoredUnderBothKeys(h) ==
    LET q == norm_query(hreq[h].user_query)
        T == norm_query(MovieMetas[hreq[h].meta].title)
    IN  /\ HasKey(meta_cache.data, q)
        /\ HasKey(meta_cache.data, T)
        /\ EntryOf(meta_cache, q).value = hreq[h].meta
        /\ EntryOf(meta_cache, T).value = hreq[h].meta
        /\ EntryOf(meta_cache, q).expires_at = EntryOf(meta_cache, T).expires_at

MaxLen == 3      \* longest text x
MaxPad == 2      \* most characters a variant is longer than x

Chars == {"a", "A", "SIGMA", " ", "\t"}
Spaces == {c \in Chars : IsSpace(c)}

\* the texts of length n
StringsOfLen(n) == [1..n -> Chars]
Strings == UNION {StringsOfLen(n) : n \in 0..MaxLen}

\* the same letter in the other case
SwapCase(c) ==
    CASE c = "a" -> "A" [] c = "A" -> "a" [] c = "b" -> "B" [] c = "B" -> "b"
      [] c = "SIGMA" -> "sigma" [] c = "sigma" -> "SIGMA"
      [] c = "varsigma" -> "SIGMA"
      [] OTHER -> c

\* handlers.py lines 120 and 124: the metadata cache key of a message text
cache_key(text) == norm_query(strip(text))

InsertAt(q, i, c) == SubSeq(q, 1, i) \o <<c>> \o SubSeq(q, i + 1, Len(q))
RemoveAt(q, i) == SubSeq(q, 1, i - 1) \o SubSeq(q, i + 1, Len(q))

\* one letter of the variant changes case
ChangeCase ==
    /\ nq.pc = "typing"
    /\ \E i \in DOMAIN nq.y :
         /\ SwapCase(nq.y[i]) # nq.y[i]
         /\ nq' = [nq EXCEPT !.y[i] = SwapCase(nq.y[i])]
    /\ UNCHANGED <<cacheVars, raceVars, queryVars, sc, sb>>

\* a whitespace character is put before or after the variant
PadEnds ==
    /\ nq.pc = "typing"
    /\ Len(nq.y) < Len(nq.x) + MaxPad
    /\ \E c \in Spaces :
         \/ nq' = [nq EXCEPT !.y = <<c>> \o nq.y]
         \/ nq' = [nq EXCEPT !.y = Append(nq.y, c)]
    /\ UNCHANGED <<cacheVars, raceVars, queryVars, sc, sb>>

\* a whitespace run of the variant grows by one character
StretchRun ==
    /\ nq.pc = "typing"
    /\ Len(nq.y) < Len(nq.x) + MaxPad
    /\ \E i \in DOMAIN nq.y, c \in Spaces :
         /\ IsSpace(nq.y[i])
         /\ nq' = [nq EXCEPT !.y = InsertAt(nq.y, i, c)]
    /\ UNCHANGED <<cacheVars, raceVars, queryVars, sc, sb>>

\* a whitespace run of the variant of two or more characters loses one
ShrinkRun ==
    /\ nq.pc = "typing"
    /\ \E i \in DOMAIN nq.y :
         /\ i < Len(nq.y)
         /\ IsSpace(nq.y[i]) /\ IsSpace(nq.y[i + 1])
         /\ nq' = [nq EXCEPT !.y = RemoveAt(nq.y, i)]
    /\ UNCHANGED <<cacheVars, raceVars, queryVars, sc, sb>>

\* norm_query is applied to x, to its own result and to y; on_query derives
\* the cache keys of x and of y
Normalize ==
    /\ nq.pc = "typing"
    /\ nq' = [nq EXCEPT !.pc = "normalized",
                        !.nx = norm_query(nq.x),
                        !.nnx = norm_query(norm_query(nq.x)),
                        !.ny = norm_query(nq.y),
                        !.kx = cache_key(nq.x),
                        !.ky = cache_key(nq.y)]
    /\ UNCHANGED <<cacheVars, raceVars, queryVars, sc, sb>>

InitNorm ==
    /\ \E x \in Strings : nq = [NoNorm EXCEPT !.pc = "typing", !.x = x, !.y = x]
    /\ sc = NoCandidates /\ sb = NoBest
    /\ CacheIdle /\ RaceIdle /\ QueryIdle

NextNorm == ChangeCase \/ PadEnds \/ StretchRun \/ ShrinkRun \/ Normalize

SpecNorm == InitNorm /\ [][NextNorm]_vars

\* C14: norm_query(norm_query(x)) = norm_query(x), and a text and a variant
\* of it that differs only in letter case, leading / trailing whitespace or
\* the length of internal whitespace runs normalize to the same string and
\* give on_query the same metadata cache key.
C14_NormQueryIdempotentAndCanonical ==
    nq.pc = "normalized" =>
        /\ nq.nnx = nq.nx
        /\ nq.ny = nq.nx
        /\ nq.ky = nq.kx

(***************************************************************************)
(* SpecRaceFair: the race on a loop that runs every callback that is ready *)
(* (the asyncio loop pops its ready queue in FIFO order, so a task or the  *)
(* coordinator that can step does step) and with fetches that end: each    *)
(* session.get carries ClientTimeout(total=timeout_s).                     *)
(***************************************************************************)
TaskIds == 1..MaxCand

FairRace ==
    /\ WF_vars(Discover)
    /\ WF_vars(Observe)
    /\ \A i \in TaskIds :
          /\ WF_vars(i \in Tasks /\ TaskStart(i))
          /\ WF_vars(i \in Tasks /\ TaskResume(i))
          /\ WF_vars(i \in Tasks /\ TaskFinish(i))
          /\ WF_vars(i \in Tasks /\ TaskCancelled(i))

SpecRaceFair == SpecRace /\ FairRace

\* a probe ended with an exception that _is_working does not turn into None
ProbeRaised == \E i \in Tasks : tres[i] = "Error"

\* C15: with a semaphore of width >= 1 and every probe ending in accept,
\* reject or timeout, a race that has started eventually returns a winner
\* or None: queued tasks are admitted as permits come back and the
\* completion loop is never left waiting, for every number of candidates
\* and every completion order.
C15_RaceTerminates == (cpc = "observing") ~> (Returned \/ ProbeRaised)

\* a race at width 1 won by the last candidate: every task before it went
\* through the semaphore queue and was rejected
C15_Witness ==
    /\ Winner
    /\ concurrency = 1
    /\ Len(candidates) >= 3
    /\ result = Link(candidates[Len(candidates)])
    /\ \A i \in Tasks : i < Len(candidates) => tres[i] = "Rejected"

(***************************************************************************)
(* SpecConc: two on_query handlers running as tasks of one event loop and  *)
(* sharing the caches of build_router.  A handler is switched out only at  *)
(* an await (the catalog calls, the race, the database calls); the cache   *)
(* calls between two awaits belong to one step.  The locals kept are those *)
(* the cache calls depend on, and they are dropped when the request ends.  *)
(***************************************************************************)
Workers == {"h1", "h2"}

\* message.text values: two queries, neither of them the title "B" that the
\* catalog record carries, so three cache keys are in play
ConcTexts == {<<"A">>, <<"c">>}

\* what the catalog calls of lines 132-136 resolve a query to: nothing, or
\* the record m1 (with or without details the keys written are the same)
CatalogAnswers == {None, "m1"}

\* the request of h ends
ConcEnd(h) ==
    /\ hreq' = [hreq EXCEPT ![h] = NoRequest]
    /\ hpc' = [hpc EXCEPT ![h] = "idle"]

\* lines 144-160 up to the next await
ConcAfterMeta(h, req, mc) ==
    /\ meta_cache' = mc
    /\ IF req.meta = None
       THEN ConcEnd(h) /\ UNCHANGED watch_cache
       ELSE LET g == get(watch_cache, watch_key(req.meta), now)
            IN  /\ watch_cache' = g.cache
                /\ hreq' = [hreq EXCEPT ![h] = [req EXCEPT !.watch_url = g.value]]
                /\ hpc' = [hpc EXCEPT ![h] = IF g.value = None THEN "race"
                                             ELSE "persist"]

\* lines 119-126
ConcReceive(h) ==
    /\ hpc[h] = "idle"
    /\ \E text \in ConcTexts :
         LET user_query == strip(text)
             g   == get(meta_cache, norm_query(user_query), now)
             req == [NoRequest EXCEPT !.user_query = user_query,
                                      !.meta = g.value, !.end = "running"]
         IN  /\ user_query # <<>>
             /\ IF g.value = None
                THEN /\ meta_cache' = g.cache
                     /\ hreq' = [hreq EXCEPT ![h] = req]
                     /\ hpc' = [hpc EXCEPT ![h] = "lookup"]
                     /\ UNCHANGED watch_cache
                ELSE ConcAfterMeta(h, req, g.cache)
    /\ UNCHANGED <<cacheVars, raceVars, pureVars>>

\* lines 127-139
ConcLookup(h) ==
    /\ hpc[h] = "lookup"
    /\ \E meta \in CatalogAnswers :
         LET user_key == norm_query(hreq[h].user_query)
             mc1 == set(meta_cache, user_key, meta, now)
             mc2 == IF meta # None
                    THEN set(mc1, norm_query(MovieMetas[meta].title), meta, now)
                    ELSE mc1
         IN  ConcAfterMeta(h, [hreq[h] EXCEPT !.meta = meta], mc2)
    /\ UNCHANGED <<cacheVars, raceVars, pureVars>>

\* lines 155-158
ConcRace(h) ==
    /\ hpc[h] = "race"
    /\ \E out \in {"raised", "none", "link"} :
         LET url == IF out = "link" THEN WatchUrl ELSE None
         IN  IF out = "raised"
             THEN ConcEnd(h) /\ UNCHANGED watch_cache
             ELSE /\ watch_cache' =
                        set(watch_cache, watch_key(hreq[h].meta), url, now)
                  /\ hreq' = [hreq EXCEPT ![h].watch_url = url]
                  /\ hpc' = [hpc EXCEPT ![h] = "persist"]
    /\ UNCHANGED <<meta_cache, cacheVars, raceVars, pureVars>>

\* lines 162-195
ConcPersist(h) ==
    /\ hpc[h] = "persist"
    /\ ConcEnd(h)
    /\ UNCHANGED <<meta_cache, watch_cache, cacheVars, raceVars, pureVars>>

InitConc ==
    /\ meta_cache = TTLCache(TTL, MetaSize)
    /\ watch_cache = TTLCache(TTL, WatchSize)
    /\ hpc = [h \in Workers |-> "idle"]
    /\ hreq = [h \in Workers |-> NoRequest]
    /\ CacheIdle /\ RaceIdle /\ PureIdle

NextConc ==
    \/ \E h \in Workers : ConcReceive(h)
    \/ \E h \in Workers : ConcLookup(h)
    \/ \E h \in Workers : ConcRace(h)
    \/ \E h \in Workers : ConcPersist(h)
    \/ Tick

SpecConc == InitConc /\ [][NextConc]_vars

\* the entries a cache stores
Entries(c) == {c.data[i] : i \in DOMAIN c.data}

\* handler h reads a cache and takes a value: the value is stored under the
\* key it asked for
ConcReadsStored(h) ==
    /\ (hpc[h] = "idle" /\ hpc'[h] # "idle" /\ hreq'[h].meta # None)
        => \E e \in Entries(meta_cache) :
              /\ e.key = norm_query(hreq'[h].user_query)
              /\ e.value = hreq'[h].meta
    /\ (hpc[h] \in {"idle", "lookup"} /\ hpc'[h] = "persist")
        => \E e \in Entries(watch_cache) :
              /\ e.key = watch_key(hreq'[h].meta)
              /\ e.value = hreq'[h].watch_url

\* every entry that appears in a cache is written by a handler passing its
\* set calls, under a key and with the value of that handler
ConcStoresWritten ==
    /\ \A e \in Entries(meta_cache') \ Entries(meta_cache) :
          \E h \in Workers :
             /\ hpc[h] = "lookup" /\ hpc'[h] # "lookup"
             /\ e.value = hreq'[h].meta
             /\ e.expires_at = now + meta_cache.ttl
             /\ \/ e.key = norm_query(hreq[h].user_query)
                \/ e.value # None /\ e.key = norm_query(MovieMetas[e.value].title)
    /\ \A e \in Entries(watch_cache') \ Entries(watch_cache) :
          \E h \in Workers :
             /\ hpc[h] = "race" /\ hpc'[h] = "persist"
             /\ e.value = hreq'[h].watch_url
             /\ e.expires_at = now + watch_cache.ttl
             /\ e.key = watch_key(hreq[h].meta)

\* the writes of a handler are applied whole, after whatever the cache held:
\* the key it writes last holds its value, also when another handler that
\* missed on the same key has written in between
ConcLastWriteWins(h) ==
    /\ (hpc[h] = "lookup" /\ hpc'[h] # "lookup")
        => LET m == hreq'[h].meta
               k == IF m = None THEN norm_query(hreq[h].user_query)
                    ELSE norm_query(MovieMetas[m].title)
           IN  \E e \in Entries(meta_cache') : e.key = k /\ e.value = m
    /\ (hpc[h] = "race" /\ hpc'[h] = "persist")
        => \E e \in Entries(watch_cache') :
              /\ e.key = watch_key(hreq[h].meta)
              /\ e.value = hreq'[h].watch_url

\* C16: under every interleaving of two handlers that switch only at their
\* awaits, neither cache ever stores more entries than its capacity, every
\* value a get returns is stored under the key asked for, every stored entry
\* was written by a handler's set for that key, and a handler's writes land
\* whole on top of what the other wrote (the later write wins).
C16_SharedCacheStaysConsistent ==
    /\ [](/\ Len(meta_cache.data) <= meta_cache.maxsize
          /\ Len(watch_cache.data) <= watch_cache.maxsize)
    /\ [][/\ ConcStoresWritten
          /\ \A h \in Workers : ConcReadsStored(h) /\ ConcLastWriteWins(h)]_vars

\* two handlers missed on the same key; one has written its record, the
\* other is still waiting for the catalog and will overwrite it
C16_Witness ==
    /\ hpc["h1"] = "lookup"
    /\ hpc["h2"] \in {"race", "persist"}
    /\ hreq["h1"].user_query = hreq["h2"].user_query
    /\ Len(meta_cache.data) = meta_cache.maxsize
    /\ \E e \in Entries(meta_cache) :
          /\ e.key = norm_query(hreq["h1"].user_query)
          /\ e.value = hreq["h2"].meta
          /\ e.expires_at >= now

\* ---------------------------------------------------------------------------
\* C17, C18: more properties of the race (SpecRace)

\* discovery has answered (it did not raise)
Discovered == cpc \notin {"discover", "discovery_error"}

\* C17: when discovery yields no candidate, find_first_watch_link has
\* returned None as soon as discovery has answered: no task is ever created,
\* no semaphore is set up and no probe runs.
C17_NoCandidatesReturnsNoneAtOnce ==
    (Discovered /\ candidates = <<>>) =>
        /\ Returned /\ result = NoLink
        /\ tstate = <<>> /\ tres = <<>> /\ cancelReq = <<>>
        /\ doneLog = <<>> /\ nobs = 0
        /\ semValue = 0 /\ waiters = <<>>

\* discovery answered with an empty list and the call has returned
C17_Witness == Discovered /\ candidates = <<>> /\ Returned /\ result = NoLink

\* the tasks that completed with a WatchLink
Accepted == {i \in Tasks : tres[i] = "Accepted"}

\* the place of a finished task in the completion order
CompletionRank(i) == CHOOSE k \in DOMAIN doneLog : doneLog[k] = i

\* C18 as stated: when several candidates pass validation, the winner is
\* the one that appears earliest in the discovery order.
C18_EarliestInDiscoveryOrderWins ==
    Winner => \E w \in Accepted :
                 /\ result = Link(candidates[w])
                 /\ \A j \in Accepted : w <= j

\* C18, amended: when several candidates pass validation, the winner is the
\* one whose validation completed first; its place in the discovery order
\* does not decide.
C18_FirstToCompleteWins ==
    Winner => \E w \in Accepted :
                 /\ result = Link(candidates[w])
                 /\ \A j \in Accepted : CompletionRank(w) <= CompletionRank(j)

\* two candidates passed validation and the one later in the discovery
\* order, which completed first, is the winner
C18_Witness ==
    /\ Winner
    /\ \E w \in Accepted, j \in Accepted :
          /\ result = Link(candidates[w])
          /\ j < w
          /\ CompletionRank(w) < CompletionRank(j)

(***************************************************************************)
(* SpecCandidates: bot/watchlinks.py search_candidates_sync and the slice  *)
(* of line 80.  A hit is the string (r.get("href") or r.get("url") or      *)
(* "").strip() of one search result.                                       *)
(***************************************************************************)
MaxHits == 4     \* most results the search returns

HttpUrls == {"http://a", "https://b", "http://c"}
Hrefs == HttpUrls \cup {"", "ftp://d"}

HitLists == UNION {[1..n -> Hrefs] : n \in 0..MaxHits}

\* lines 29-32: the hits that start with http:// or https://
http_only(hits) == SelectSeq(hits, LAMBDA u : u \in HttpUrls)

\* lines 34-39: the loop over urls with the set `seen`
RECURSIVE first_seen(_, _, _)
first_seen(urls, seen, out) ==
    IF urls = <<>> THEN out
    ELSE IF Head(urls) \in seen THEN first_seen(Tail(urls), seen, out)
    ELSE first_seen(Tail(urls), seen \cup {Head(urls)}, Append(out, Head(urls)))

\* variant: no deduplication
dedupe_keeps_all(urls) == urls

dedupe(urls) == first_seen(urls, {}, <<>>)

\* s[:n]
Take(s, n) == SubSeq(s, 1, Min(n, Len(s)))

\* search_candidates_sync returns
Search ==
    /\ sc.pc = "search"
    /\ sc' = [sc EXCEPT !.pc = "found",
                        !.urls = http_only(sc.hits),
                        !.out = dedupe(http_only(sc.hits))]
    /\ UNCHANGED <<cacheVars, raceVars, queryVars, nq, sb>>

\* line 80: candidates = candidates[:total_limit]
Truncate ==
    /\ sc.pc = "found"
    /\ sc' = [sc EXCEPT !.pc = "ready",
                        !.candidates = Take(sc.out, sc.total_limit)]
    /\ UNCHANGED <<cacheVars, raceVars, queryVars, nq, sb>>

InitCandidates ==
    /\ \E hits \in HitLists, limit \in 0..MaxCand :
          sc = [NoCandidates EXCEPT !.pc = "search", !.hits = hits,
                                    !.total_limit = limit]
    /\ nq = NoNorm /\ sb = NoBest
    /\ CacheIdle /\ RaceIdle /\ QueryIdle

NextCandidates == Search \/ Truncate

SpecCandidates == InitCandidates /\ [][NextCandidates]_vars

\* the positions of sc.urls at which a URL occurs for the first time
FirstOccurrences ==
    {i \in DOMAIN sc.urls : \A j \in 1..(i - 1) : sc.urls[j] # sc.urls[i]}

\* the k-th of them
KthFirstOccurrence(k) ==
    CHOOSE p \in FirstOccurrences :
        Cardinality({q \in FirstOccurrences : q < p}) = k - 1

\* C19: the candidate list handed to the race has no duplicate URL, has at
\* most total_limit elements, and is the first total_limit elements of the
\* discovered URLs with every URL kept at its first occurrence only, in
\* discovery order.
C19_CandidatesAreTruncatedFirstOccurrences ==
    sc.pc = "ready" =>
        LET c == sc.candidates
        IN  /\ \A i \in DOMAIN c : \A j \in DOMAIN c : i # j => c[i] # c[j]
            /\ Len(c) <= sc.total_limit
            /\ Len(c) = Min(sc.total_limit, Cardinality(FirstOccurrences))
            /\ \A k \in DOMAIN c : c[k] = sc.urls[KthFirstOccurrence(k)]

\* a repeated URL among the hits, more distinct URLs than the limit: the
\* list was both deduplicated and cut
C19_Witness ==
    /\ sc.pc = "ready"
    /\ Len(sc.out) < Len(sc.urls)
    /\ Len(sc.candidates) < Len(sc.out)
    /\ Len(sc.candidates) = 2
    /\ sc.urls[2] = sc.urls[1]
    /\ sc.candidates[2] = sc.urls[3]

(***************************************************************************)
(* SpecSearch: bot/tmdb.py tmdb_search_best on every pair of answers of    *)
(* the primary (ru-RU) and the fallback (en-US) search.                    *)
(***************************************************************************)
MaxResults == 2  \* most entries in one search answer

SearchEntries == {Person, Movie1, Tv2, Movie3NoId}
Answers == UNION {[1..n -> SearchEntries] : n \in 0..MaxResults}

\* tmdb_search_best returns
SearchBest ==
    /\ sb.pc = "searching"
    /\ LET best == tmdb_search_best(sb.ru, sb.en)
       IN  sb' = [sb EXCEPT !.pc = "done", !.meta = best.meta,
                           !.calls = best.calls]
    /\ UNCHANGED <<cacheVars, raceVars, queryVars, nq, sc>>

InitSearch ==
    /\ \E ru \in Answers, en \in Answers :
          sb = [NoBest EXCEPT !.pc = "searching", !.ru = ru, !.en = en]
    /\ nq = NoNorm /\ sc = NoCandidates
    /\ CacheIdle /\ RaceIdle /\ QueryIdle

NextSearch == SearchBest

SpecSearch == InitSearch /\ [][NextSearch]_vars

\* the searches made, as a set
Searched == {sb.calls[i] : i \in DOMAIN sb.calls}

\* an entry of a recognized media kind
Recognized(r) == r.media_type \in {"movie", "tv"}

\* an entry _pick_first_movie_tv does not skip
Usable(r) == Recognized(r) /\ r.int_id

\* the record of the first recognized entry of rs, None without one
FirstRecognized(rs) ==
    IF \E i \in DOMAIN rs : Recognized(rs[i])
    THEN rs[CHOOSE i \in DOMAIN rs :
               Recognized(rs[i]) /\ \A j \in 1..(i - 1) : ~Recognized(rs[j])].meta
    ELSE None

\* the record of the first usable entry of rs, None without one
FirstUsable(rs) ==
    IF \E i \in DOMAIN rs : Usable(rs[i])
    THEN rs[CHOOSE i \in DOMAIN rs :
               Usable(rs[i]) /\ \A j \in 1..(i - 1) : ~Usable(rs[j])].meta
    ELSE None

\* C20 as stated: the primary language is searched first, the fallback only
\* if the primary search yields nothing, and the match is the first entry
\* of a recognized media kind in the first non-empty result set.
C20_FallbackOnlyAfterEmptyPrimary ==
    sb.pc = "done" =>
        /\ sb.calls[1] = "search:ru-RU"
        /\ "search:en-US" \in Searched => sb.ru = <<>>
        /\ sb.meta = FirstRecognized(IF sb.ru # <<>> THEN sb.ru ELSE sb.en)

\* C20, amended: the primary language is searched first; the fallback
\* search is made exactly when the primary answer has no entry of a
\* recognized media kind with an integer id (an empty answer included); the
\* match is the first such entry of the primary answer, else the first such
\* entry of the fallback answer, else absent.
C20_FallbackWhenNoUsablePrimaryEntry ==
    sb.pc = "done" =>
        /\ sb.calls[1] = "search:ru-RU"
        /\ Len(sb.calls) <= 2
        /\ "search:en-US" \in Searched <=> FirstUsable(sb.ru) = None
        /\ sb.meta = IF FirstUsable(sb.ru) # None
                     THEN FirstUsable(sb.ru)
                     ELSE FirstUsable(sb.en)

\* a non-empty primary answer without a usable entry; the fallback answer
\* starts with a movie entry that has no integer id and the tv entry after
\* it is selected
C20_Witness ==
    /\ sb.pc = "done"
    /\ sb.ru # <<>>
    /\ sb.calls = <<"search:ru-RU", "search:en-US">>
    /\ Len(sb.en) = 2
    /\ sb.en[1] = Movie3NoId
    /\ sb.meta = "t2"

\* ---------------------------------------------------------------------------
\* C21, C22: what on_query does with the outcome of the lookup (SpecQuery)

\* the catalog has just answered the request of h
LookupStep(h) == hpc[h] = "lookup" /\ hpc'[h] # "lookup"

\* the entries a cache stores under a key
EntriesUnder(c, k) == {e \in Entries(c) : e.key = k}

\* C21: when the search finds a match and tmdb_fetch_details returns
\* nothing, the request goes on with the match the search built, that
\* match is the value set under the query key and then under the title
\* key, and no entry under either key holds None afterwards.
C21_UnenrichedMatchIsKept ==
    /\ [](\A h \in Handlers :
            hreq[h].details = "failed" =>
                /\ hreq[h].meta # None
                /\ MovieMetas[hreq[h].meta].overview = "search"
                /\ hreq[h].end # "not_found")
    /\ [][\A h \in Handlers :
            (LookupStep(h) /\ hreq'[h].details = "failed") =>
                LET m  == hreq'[h].meta
                    q  == norm_query(hreq[h].user_query)
                    T  == norm_query(MovieMetas[m].title)
                IN  /\ meta_cache' = set(set(meta_cache, q, m, now), T, m, now)
                    /\ \A e \in EntriesUnder(meta_cache', q) : e.value = m
                    /\ \E e \in EntriesUnder(meta_cache', T) : e.value = m]_vars

\* a request answered with the match of the search after a failed details
\* call; the match is stored under the query key "a" and the title key "b"
C21_Witness ==
    \E h \in Handlers :
        /\ hreq[h].details = "failed"
        /\ hreq[h].end = "answered"
        /\ hreq[h].calls = <<"search:ru-RU", "details">>
        /\ norm_query(hreq[h].user_query) = <<"a">>
        /\ \E e \in EntriesUnder(meta_cache, <<"a">>) : e.value = hreq[h].meta
        /\ \E e \in EntriesUnder(meta_cache, <<"b">>) : e.value = hreq[h].meta

\* the request of h has no metadata record
NoRecord(h) == hreq[h].meta = None

\* the request of h has got as far as the watch-link lookup of line 151
ReachedWatchLookup(h) ==
    \/ hpc[h] \in {"race", "persist"}
    \/ hreq[h].watch_hit # "unread"
    \/ hreq[h].discovery # "not_called"
    \/ hreq[h].probes
    \/ hreq[h].watch_url # None
    \/ hreq[h].end \in {"raised", "answered"}

\* C22: a request without a metadata record never gets to the watch-link
\* lookup: it has not read the watch-link cache, called discovery or a
\* probe, is not before or past the history and stat writes, and no step
\* of it changes the watch-link cache; a request that got there has a record.
C22_NoRecordNoWatchLookup ==
    /\ [](\A h \in Handlers : NoRecord(h) => ~ReachedWatchLookup(h))
    /\ [][\A h \in Handlers :
            (hreq'[h] # hreq[h] /\ hreq'[h].meta = None) =>
                UNCHANGED watch_cache]_vars

\* a request that hit a stored None, asked the catalog again, found
\* nothing and ended, while the watch-link cache holds a link
C22_Witness ==
    \E h \in Handlers :
        /\ hreq[h].end = "not_found"
        /\ hreq[h].meta_hit = "none"
        /\ hreq[h].calls # <<>>
        /\ hpc[h] = "idle"
        /\ watch_cache.data # <<>>

====
